---- MODULE Spec2Model ----
(***************************************************************************)
(* Model of python/audio_analysis.py: the import guard, main, the staged   *)
(* pipeline of analyze_audio and calculate_rhythm_regularity.              *)
(*                                                                         *)
(* Numbers.  The program computes in IEEE binary floating point (numpy     *)
(* float64 / float32).  The model keeps the rounding: a number is an       *)
(* integer count of 2^-Frac, and every arithmetic result is rounded to     *)
(* Prec significant bits, ties to even, exactly as an IEEE operation       *)
(* rounds (with 2^-Frac playing the part of the smallest subnormal).       *)
(* Prec and Frac are scaled down from 53 and 1074.  The inputs drawn are    *)
(* finite numbers small enough that nothing overflows to infinity.         *)
(***************************************************************************)
EXTENDS Integers, Sequences, FiniteSets, TLC

VARIABLES
    pc,        \* position of the process: import guard, main, pipeline stage
    argv,      \* sys.argv
    importable,\* whether "import librosa, numpy" succeeds
    stdout,    \* the documents printed so far
    exitCode,  \* -1 while running, then the exit status
    started,   \* how many times analyze_audio was entered
    calls,     \* how many collaborator (librosa) calls were made
    raised,    \* the exception a stage raised (its stage, its message), or NoExc
    locals,    \* the local variables of analyze_audio
    result,    \* what analyze_audio returned
    arg,       \* pure-function specifications: the argument drawn
    ret,       \* pure-function specifications: the value returned
    phase      \* pure-function specifications: "call" or "returned"

vars == <<pc, argv, importable, stdout, exitCode, started, calls, raised,
          locals, result, arg, ret, phase>>

(***************************************************************************)
(* Bounds of the model.                                                    *)
(***************************************************************************)
Prec == 3          \* significant bits of a float
Frac == 6          \* fractional bits: 1.0 is 2^Frac
MaxBeatsFn == 4    \* longest beat sequence given to calculate_rhythm_regularity
MaxStream == 3     \* longest stream given to the normalization
MaxBeats == 3      \* longest beat-frame array the collaborator returns
MaxFrames == 2     \* longest RMS stream the collaborator returns

One == 2^Frac
Half == One \div 2

(***************************************************************************)
(* Floating point.                                                         *)
(***************************************************************************)
Abs(n) == IF n < 0 THEN -n ELSE n

Sgn(n) == IF n < 0 THEN -1 ELSE 1

RECURSIVE Gran(_, _)
\* the spacing of the floats around magnitude q: the least power of two g
\* with q < g * 2^Prec
Gran(q, g) == IF q < g * (2^Prec) THEN g ELSE Gran(q, 2 * g)

\* num/den (den > 0) rounded to the nearest float, ties to even
RoundRat(num, den) ==
    LET a == Abs(num)
        g == Gran(a \div den, 1)
        k == a \div (den * g)
        r == a - k * den * g
        up == (2 * r > den * g) \/ (2 * r = den * g /\ k % 2 = 1)
    IN  Sgn(num) * (IF up THEN k + 1 ELSE k) * g

fadd(a, b) == RoundRat(a + b, 1)

fsub(a, b) == RoundRat(a - b, 1)

fmul(a, b) == RoundRat(a * b, One)

\* b # 0 at every use
fdiv(a, b) == IF b > 0 THEN RoundRat(a * One, b) ELSE RoundRat(-(a * One), -b)

RECURSIVE SqrtSearch(_, _, _)
\* the integer s in lo..hi with s*s <= n < (s+1)*(s+1)
SqrtSearch(n, lo, hi) ==
    IF lo = hi THEN lo
    ELSE LET mid == (lo + hi + 1) \div 2
         IN  IF mid <= n \div mid THEN SqrtSearch(n, mid, hi)
             ELSE SqrtSearch(n, lo, mid - 1)

\* sqrt(a) for a >= 0, correctly rounded
fsqrt(a) ==
    LET n == a * One
        s == SqrtSearch(n, 0, n)
        g == Gran(s, 1)
        k == s \div g
        h == (2 * k + 1) * (2 * k + 1) * g * g
        up == (4 * n > h) \/ (4 * n = h /\ k % 2 = 1)
    IN  (IF up THEN k + 1 ELSE k) * g

NaN == "nan"

(***************************************************************************)
(* numpy reductions, as numpy evaluates them on short arrays: left to      *)
(* right, every partial result rounded.                                    *)
(***************************************************************************)
RECURSIVE np_sum(_)
np_sum(xs) ==
    IF Len(xs) = 0 THEN 0
    ELSE fadd(np_sum(SubSeq(xs, 1, Len(xs) - 1)), xs[Len(xs)])

\* np.mean: add.reduce(xs) / n; the mean of an empty array is nan (a warning,
\* which the program silences, not an exception)
np_mean(xs) == IF Len(xs) = 0 THEN NaN ELSE fdiv(np_sum(xs), Len(xs) * One)

\* np.std (ddof = 0): sqrt(mean(|x - mean|^2)); xs is not empty
np_std(xs) ==
    LET m == np_mean(xs)
        sq == [i \in 1..Len(xs) |-> fmul(fsub(xs[i], m), fsub(xs[i], m))]
    IN  fsqrt(fdiv(np_sum(sq), Len(xs) * One))

\* np.diff: xs[1:] - xs[:-1]
np_diff(xs) == [i \in 1..(Len(xs) - 1) |-> fsub(xs[i + 1], xs[i])]

RECURSIVE np_max(_)
\* np.max of a non-empty array
np_max(xs) ==
    IF Len(xs) = 1 THEN xs[1]
    ELSE LET m == np_max(SubSeq(xs, 1, Len(xs) - 1))
         IN  IF xs[Len(xs)] > m THEN xs[Len(xs)] ELSE m

\* Python's min(a, b) and max(a, b): the first argument unless the second
\* compares strictly smaller (larger)
py_min(a, b) == IF b < a THEN b ELSE a

py_max(a, b) == IF b > a THEN b ELSE a

(***************************************************************************)
(* calculate_rhythm_regularity                                             *)
(***************************************************************************)
\* faulty variant: the short-sequence guard tests < 2 instead of < 3
regularity_guard_2(beat_times) ==
    IF Len(beat_times) < 2 THEN Half
    ELSE LET intervals == np_diff(beat_times)
             mean_interval == np_mean(intervals)
             std_interval == np_std(intervals)
             cv == fdiv(std_interval, mean_interval)
         IN  IF Len(intervals) = 0 THEN Half
             ELSE IF mean_interval = 0 THEN Half
             ELSE py_max(0, py_min(One, fsub(One, fmul(cv, 2 * One))))

\* faulty variant: the score is not clamped
regularity_unclamped(beat_times) ==
    IF Len(beat_times) < 3 THEN Half
    ELSE LET intervals == np_diff(beat_times)
             mean_interval == np_mean(intervals)
             std_interval == np_std(intervals)
             cv == fdiv(std_interval, mean_interval)
         IN  IF Len(intervals) = 0 THEN Half
             ELSE IF mean_interval = 0 THEN Half
             ELSE fsub(One, fmul(cv, 2 * One))

calculate_rhythm_regularity(beat_times) ==
    IF Len(beat_times) < 3 THEN Half
    ELSE LET intervals == np_diff(beat_times)
             mean_interval == np_mean(intervals)
             std_interval == np_std(intervals)
             cv == fdiv(std_interval, mean_interval)
         IN  IF Len(intervals) = 0 THEN Half
             ELSE IF mean_interval = 0 THEN Half
             ELSE py_max(0, py_min(One, fsub(One, fmul(cv, 2 * One))))

(***************************************************************************)
(* The RMS normalization of analyze_audio.                                 *)
(***************************************************************************)
\* faulty variant: the divisor falls back to 1.0 only when the maximum is exactly 0
Divisor_eq0(rms) == IF np_max(rms) = 0 THEN One ELSE np_max(rms)

\* the divisor: np.max(rms) if np.max(rms) > 0 else 1.0
Divisor(rms) == IF np_max(rms) > 0 THEN np_max(rms) ELSE One

\* rms_normalized = rms / divisor; rms is not empty (np.max raises on an
\* empty array, see StageEnergy)
Normalize(rms) == [i \in 1..Len(rms) |-> fdiv(rms[i], Divisor(rms))]

(***************************************************************************)
(* Inputs.                                                                 *)
(***************************************************************************)
SeqsUpTo(S, n) == UNION {[1..k -> S] : k \in 0..n}

\* beat timestamps (seconds): 0, 0.25, 1, 1.75, 2, 2.5
FnTimes == {0, One \div 4, One, (7 * One) \div 4, 2 * One, (5 * One) \div 2}

\* raw stream values: -4, -2, 0, 2, 4, 8
FnLevels == {-(4 * One), -(2 * One), 0, 2 * One, 4 * One, 8 * One}

NoExc == [stage |-> "none", message |-> ""]

Unbound == "unbound"

NoLocals == [audio_path |-> Unbound]

SampleRate == 22050

\* the constant placeholders of a beat: float(0.85), float(0.8)
Confidence == RoundRat(85 * One, 100)

Strength == RoundRat(8 * One, 10)

\* what the collaborator may return ------------------------------------------
AudioPaths == {"song.wav"}

ExcMessages == {"decode failed", "numeric error"}

DurationValues == {0, One}

TempoBpm == 96 * One

BeatTimeValues == {0, 2 * One}

\* (tempo, beat times) of beat_track followed by frames_to_time
BeatTrackResults ==
    {<<0, <<>>>>} \cup
    {<<TempoBpm, bt>> : bt \in SeqsUpTo(BeatTimeValues, MaxBeats) \ {<<>>}}

RmsValues == {-One, 0, 2 * One}

FrameTimeValues == {0, One}

\* (rms, rms_times): times_like returns one time per frame of rms
RmsResults ==
    UNION {[1..k -> RmsValues] \X [1..k -> FrameTimeValues] : k \in 0..MaxFrames}

\* the four spectral streams, frame-aligned
SpectralResults ==
    {[centroid |-> s, rolloff |-> s, bandwidth |-> s, zeroCrossingRate |-> s] :
        s \in {<<>>, <<One>>}}

OnsetResults == {<<>>, <<One>>}

(***************************************************************************)
(* The documents.                                                          *)
(***************************************************************************)
ResultKeys ==
    {"tempo", "duration", "beats", "energy", "spectralFeatures", "rhythm", "stats"}

ErrorKeys == {"error", "message"}

\* faulty variant: the message lacks its prefix
ErrorDocument_bare(e) == [error |-> e, message |-> e]

\* the except clause of analyze_audio
ErrorDocument(e) ==
    [error |-> e, message |-> "Failed to analyze audio: " \o e]

MissingDependencyDocument ==
    [error |-> "librosa not installed",
     message |-> "Please install: pip install librosa numpy scipy soundfile"]

MissingArgumentDocument ==
    [error |-> "missing_argument",
     message |-> "Usage: python audio_analysis.py <audio_file_path>"]

\* the beats list built from beat_times
BeatInfo(beat_times) ==
    [i \in 1..Len(beat_times) |->
        [time |-> beat_times[i], confidence |-> Confidence, strength |-> Strength]]

Min2(a, b) == IF a < b THEN a ELSE b

\* the energy list: zip(rms_times, rms_normalized)
EnergyLevels(rms_times, rms_normalized) ==
    [i \in 1..Min2(Len(rms_times), Len(rms_normalized)) |->
        [time |-> rms_times[i], level |-> rms_normalized[i]]]

\* faulty variant: the result dictionary also carries an (empty) error field
AssembleResult_with_error(l) ==
    [tempo |-> l.tempo,
     duration |-> l.duration,
     beats |-> l.beats,
     energy |-> l.energy_levels,
     spectralFeatures |-> l.spectral,
     rhythm |-> [strength |-> l.rhythm_strength,
                 regularity |-> l.rhythm_regularity],
     stats |-> [sampleRate |-> l.sr,
                beatCount |-> Len(l.beats),
                avgEnergy |-> np_mean(l.rms_normalized)],
     error |-> ""]

\* the result dictionary, from the locals l of analyze_audio
AssembleResult(l) ==
    [tempo |-> l.tempo,
     duration |-> l.duration,
     beats |-> l.beats,
     energy |-> l.energy_levels,
     spectralFeatures |-> l.spectral,
     rhythm |-> [strength |-> l.rhythm_strength,
                 regularity |-> l.rhythm_regularity],
     stats |-> [sampleRate |-> l.sr,
                beatCount |-> Len(l.beats),
                avgEnergy |-> np_mean(l.rms_normalized)]]

IdleProcess ==
    /\ pc = "idle"
    /\ argv = <<>>
    /\ importable = TRUE
    /\ stdout = <<>>
    /\ exitCode = -1
    /\ started = 0
    /\ calls = 0
    /\ raised = NoExc
    /\ locals = NoLocals
    /\ result = Unbound

processVars == <<pc, argv, importable, stdout, exitCode, started, calls,
                 raised, locals, result>>

fnVars == <<arg, ret, phase>>

(***************************************************************************)
(* Spec: one run of the program.                                           *)
(***************************************************************************)
Init ==
    /\ pc = "import"
    /\ argv \in {<<"audio_analysis.py">>} \cup
                {<<"audio_analysis.py", p>> : p \in AudioPaths}
    /\ importable \in BOOLEAN
    /\ stdout = <<>>
    /\ exitCode = -1
    /\ started = 0
    /\ calls = 0
    /\ raised = NoExc
    /\ locals = NoLocals
    /\ result = Unbound
    /\ arg = <<>>
    /\ ret = Unbound
    /\ phase = "none"

\* print(json.dumps(doc)); sys.exit(code)
PrintAndExit(doc, code) ==
    /\ stdout' = Append(stdout, doc)
    /\ exitCode' = code
    /\ pc' = "exited"

\* the import guard: import librosa, numpy succeeds
ImportOk ==
    /\ pc = "import"
    /\ importable
    /\ pc' = "main"
    /\ UNCHANGED <<argv, importable, stdout, exitCode, started, calls, raised,
                   locals, result, fnVars>>

\* the import guard: ImportError
ImportFails ==
    /\ pc = "import"
    /\ ~importable
    /\ PrintAndExit(MissingDependencyDocument, 1)
    /\ UNCHANGED <<argv, importable, started, calls, raised, locals, result,
                   fnVars>>

\* faulty variant: the usage error is printed but sys.exit(1) is missing
MainMissingArgument_no_exit ==
    /\ pc = "main"
    /\ Len(argv) < 2
    /\ stdout' = Append(stdout, MissingArgumentDocument)
    /\ started' = started + 1
    /\ locals' = [audio_path |-> ""]
    /\ pc' = "load"
    /\ UNCHANGED <<argv, importable, exitCode, calls, raised, result, fnVars>>

\* main: len(sys.argv) < 2
MainMissingArgument ==
    /\ pc = "main"
    /\ Len(argv) < 2
    /\ PrintAndExit(MissingArgumentDocument, 1)
    /\ UNCHANGED <<argv, importable, started, calls, raised, locals, result,
                   fnVars>>

\* main: result = analyze_audio(sys.argv[1]) is entered
MainCall ==
    /\ pc = "main"
    /\ Len(argv) >= 2
    /\ started' = started + 1
    /\ locals' = [audio_path |-> argv[2]]
    /\ pc' = "load"
    /\ UNCHANGED <<argv, importable, stdout, exitCode, calls, raised, result,
                   fnVars>>

\* a stage raises e after n collaborator calls: the except clause returns the
\* error document and the frame of analyze_audio is gone
Raise(stage, e, n) ==
    /\ raised' = [stage |-> stage, message |-> e]
    /\ result' = ErrorDocument(e)
    /\ calls' = calls + n
    /\ locals' = NoLocals
    /\ pc' = "print"
    /\ UNCHANGED <<argv, importable, stdout, exitCode, started, fnVars>>

\* a stage binds new locals after n collaborator calls and goes on
Bind(new, n, next) ==
    /\ locals' = new @@ locals
    /\ calls' = calls + n
    /\ pc' = next
    /\ UNCHANGED <<argv, importable, stdout, exitCode, started, raised, result,
                   fnVars>>

\* y, sr = librosa.load(audio_path, sr=22050, mono=True)
StageLoad ==
    /\ pc = "load"
    /\ \/ Bind([y |-> "samples", sr |-> SampleRate], 1, "duration")
       \/ \E e \in ExcMessages : Raise("load", e, 1)

\* duration = librosa.get_duration(y=y, sr=sr)
StageDuration ==
    /\ pc = "duration"
    /\ \/ \E d \in DurationValues : Bind([duration |-> d], 1, "beats")
       \/ \E e \in ExcMessages : Raise("duration", e, 1)

\* beat_track, frames_to_time, and the beats list
StageBeats ==
    /\ pc = "beats"
    /\ \/ \E r \in BeatTrackResults :
            Bind([tempo |-> r[1], beat_times |-> r[2], beats |-> BeatInfo(r[2])],
                 2, "energy")
       \/ \E e \in ExcMessages : Raise("beats", e, 1)

\* rms, times_like, the normalization and the energy list; np.max raises
\* ValueError on an empty rms
StageEnergy ==
    /\ pc = "energy"
    /\ \/ \E r \in RmsResults :
            /\ Len(r[1]) > 0
            /\ Bind([rms |-> r[1], rms_times |-> r[2],
                     rms_normalized |-> Normalize(r[1]),
                     energy_levels |-> EnergyLevels(r[2], Normalize(r[1]))],
                    2, "spectral")
       \/ \E r \in RmsResults :
            /\ Len(r[1]) = 0
            /\ Raise("energy", "zero-size array to reduction operation maximum which has no identity", 2)
       \/ \E e \in ExcMessages : Raise("energy", e, 1)

\* spectral_centroid, spectral_rolloff, spectral_bandwidth, zero_crossing_rate
StageSpectral ==
    /\ pc = "spectral"
    /\ \/ \E s \in SpectralResults : Bind([spectral |-> s], 4, "onset")
       \/ \E e \in ExcMessages : Raise("spectral", e, 1)

\* onset_strength and its mean
StageOnset ==
    /\ pc = "onset"
    /\ \/ \E o \in OnsetResults :
            Bind([onset_env |-> o, rhythm_strength |-> np_mean(o)], 1, "regularity")
       \/ \E e \in ExcMessages : Raise("onset", e, 1)

\* rhythm_regularity = calculate_rhythm_regularity(beat_times)
StageRegularity ==
    /\ pc = "regularity"
    /\ \/ \E e \in ExcMessages : Raise("regularity", e, 0)
       \/ Bind([rhythm_regularity |-> calculate_rhythm_regularity(locals.beat_times)],
               0, "assemble")

\* the result dictionary is built and returned
StageAssemble ==
    /\ pc = "assemble"
    /\ \/ \E e \in ExcMessages : Raise("assemble", e, 0)
       \/ /\ result' = AssembleResult(locals)
          /\ locals' = NoLocals
          /\ pc' = "print"
          /\ UNCHANGED <<argv, importable, stdout, exitCode, started, calls,
                         raised, fnVars>>

\* faulty variant: a failed analysis is printed and then tried again
MainPrint_retry ==
    /\ pc = "print"
    /\ stdout' = Append(stdout, result)
    /\ IF raised.stage # "none"
       THEN /\ started' = started + 1
            /\ locals' = [audio_path |-> argv[2]]
            /\ pc' = "load"
            /\ exitCode' = exitCode
       ELSE /\ exitCode' = 0
            /\ pc' = "exited"
            /\ UNCHANGED <<started, locals>>
    /\ UNCHANGED <<argv, importable, calls, raised, result, fnVars>>

\* main: print(json.dumps(result, indent=2)) and the process ends
MainPrint ==
    /\ pc = "print"
    /\ PrintAndExit(result, 0)
    /\ UNCHANGED <<argv, importable, started, calls, raised, locals, result,
                   fnVars>>

Next ==
    \/ ImportOk
    \/ ImportFails
    \/ MainMissingArgument
    \/ MainCall
    \/ StageLoad
    \/ StageDuration
    \/ StageBeats
    \/ StageEnergy
    \/ StageSpectral
    \/ StageOnset
    \/ StageRegularity
    \/ StageAssemble
    \/ MainPrint

Spec == Init /\ [][Next]_vars

(***************************************************************************)
(* SpecRegularity: calculate_rhythm_regularity applied to every beat       *)
(* sequence of up to MaxBeatsFn timestamps.                                *)
(***************************************************************************)
InitRegularity ==
    /\ IdleProcess
    /\ arg \in SeqsUpTo(FnTimes, MaxBeatsFn)
    /\ ret = Unbound
    /\ phase = "call"

CallRegularity ==
    /\ phase = "call"
    /\ ret' = calculate_rhythm_regularity(arg)
    /\ phase' = "returned"
    /\ UNCHANGED <<arg, processVars>>

NextRegularity == CallRegularity

SpecRegularity == InitRegularity /\ [][NextRegularity]_vars

(***************************************************************************)
(* SpecNormalize: the normalization applied to every non-empty stream of   *)
(* up to MaxStream values.                                                 *)
(***************************************************************************)
InitNormalize ==
    /\ IdleProcess
    /\ arg \in SeqsUpTo(FnLevels, MaxStream) \ {<<>>}
    /\ ret = Unbound
    /\ phase = "call"

CallNormalize ==
    /\ phase = "call"
    /\ ret' = Normalize(arg)
    /\ phase' = "returned"
    /\ UNCHANGED <<arg, processVars>>

NextNormalize == CallNormalize

SpecNormalize == InitNormalize /\ [][NextNormalize]_vars

(***************************************************************************)
(* Properties.                                                             *)
(***************************************************************************)
\* analyze_audio has returned (to main, which prints what it returned)
Returned == started > 0 /\ pc \in {"print", "exited"}

Succeeded == Returned /\ raised.stage = "none"

InUnit(x) == 0 <= x /\ x <= One

\* C1: every document analyze_audio returns either carries all the result
\* fields and neither "error" nor "message", or carries exactly "error" and
\* "message"; never both shapes, never neither.
C1_OneShape ==
    Returned =>
        \/ ResultKeys \subseteq DOMAIN result /\ DOMAIN result \cap ErrorKeys = {}
        \/ DOMAIN result = ErrorKeys

C1_Witness ==
    /\ pc = "exited"
    /\ Succeeded
    /\ DOMAIN result = ResultKeys
    /\ Len(result.beats) > 0
    /\ Len(result.energy) > 0

\* C2: when a stage of analyze_audio fails, analyze_audio still returns: the
\* document it returns is exactly {error: e, message: "Failed to analyze
\* audio: " + e} for the failure's message e, with none of the partial results
\* in it, and main prints it and ends normally.
C2_FailureBecomesErrorDocument ==
    raised.stage # "none" =>
        /\ Returned
        /\ DOMAIN result = ErrorKeys
        /\ result.error = raised.message
        /\ result.message = "Failed to analyze audio: " \o raised.message
        /\ pc = "exited" => stdout = <<result>> /\ exitCode = 0

\* the failure came after the beats and the energy levels had been computed
C2_Witness ==
    /\ pc = "exited"
    /\ raised.stage = "spectral"
    /\ result.error = "numeric error"

\* C3: without an input path argument main prints the missing_argument error
\* document and exits nonzero, and analyze_audio is never entered and no
\* collaborator call is made.
C3_MissingArgument ==
    Len(argv) < 2 =>
        /\ started = 0
        /\ calls = 0
        /\ (pc = "exited" /\ importable) =>
              /\ Len(stdout) = 1
              /\ DOMAIN stdout[1] = ErrorKeys
              /\ stdout[1].error = "missing_argument"
              /\ exitCode # 0

C3_Witness ==
    /\ pc = "exited"
    /\ importable
    /\ Len(argv) < 2
    /\ stdout[1].error = "missing_argument"

\* C4: on every path exactly one document is printed and the process then
\* ends; the analysis is entered at most once, and a failure is reported once
\* and not retried.  No state before the exit is stuck.
C4_ExactlyOneDocument ==
    /\ Len(stdout) <= 1
    /\ started <= 1
    /\ pc = "exited" <=> Len(stdout) = 1
    /\ pc = "exited" => exitCode \in {0, 1}
    /\ raised.stage # "none" => started = 1
    /\ pc # "exited" => ENABLED Next

C4_Witness ==
    /\ pc = "exited"
    /\ raised.stage = "load"
    /\ Len(stdout) = 1
    /\ started = 1

\* C5: for every beat sequence of length 0, 1 or 2 the regularity is 0.5.
C5_ShortIsHalf ==
    (phase = "returned" /\ Len(arg) < 3) => 2 * ret = One

C5_Witness ==
    /\ phase = "returned"
    /\ Len(arg) = 2
    /\ arg[1] # arg[2]
    /\ 2 * ret = One

\* successive intervals all equal to the same nonzero constant
EvenlySpaced(ts) ==
    /\ Len(ts) >= 3
    /\ ts[2] - ts[1] # 0
    /\ \A i \in 1..(Len(ts) - 1) : ts[i + 1] - ts[i] = ts[2] - ts[1]

\* C6: for every evenly spaced beat sequence of length at least 3 the
\* regularity is 1.0.
C6_EvenIsOne ==
    (phase = "returned" /\ EvenlySpaced(arg)) => ret = One

\* C7: the regularity lies in [0,1] for every beat sequence, and it is
\* exactly 0 when the standard deviation of the intervals is at least half of
\* their positive mean.
C7_Clamped ==
    phase = "returned" =>
        /\ InUnit(ret)
        /\ (/\ Len(arg) >= 3
            /\ np_mean(np_diff(arg)) > 0
            /\ 2 * np_std(np_diff(arg)) >= np_mean(np_diff(arg))) => ret = 0

C7_Witness ==
    /\ phase = "returned"
    /\ Len(arg) >= 3
    /\ np_mean(np_diff(arg)) > 0
    /\ 2 * np_std(np_diff(arg)) > np_mean(np_diff(arg))
    /\ ret = 0

\* the greatest element of a non-empty stream
Greatest(xs) ==
    CHOOSE m \in {xs[i] : i \in 1..Len(xs)} : \A i \in 1..Len(xs) : xs[i] <= m

C9_LevelsInUnit ==
    Succeeded =>
        /\ \A i \in 1..Len(result.energy) : InUnit(result.energy[i].level)
        /\ \A i \in 1..Len(result.beats) :
              InUnit(result.beats[i].confidence) /\ InUnit(result.beats[i].strength)

\* C10: in every result document every beat time and every energy time is
\* nonnegative and not greater than the duration.
C10_TimesWithinDuration ==
    Succeeded =>
        /\ \A i \in 1..Len(result.beats) :
              0 <= result.beats[i].time /\ result.beats[i].time <= result.duration
        /\ \A i \in 1..Len(result.energy) :
              0 <= result.energy[i].time /\ result.energy[i].time <= result.duration

====
